---- MODULE Spec2Model ----
(***************************************************************************)
(* State-machine model of nxt_car.py: one MotorRunThread (a Serializer     *)
(* with a work-request queue and a result queue), the sensor threads that  *)
(* call its apply method (MotorTouchThread, UltrasonicThread), an optional *)
(* ResultQueueChecker on its result queue, and the shared stopQueue every  *)
(* loop polls through check_stop.                                          *)
(*                                                                         *)
(* Every thread is a program counter in pc; one action is one atomic step  *)
(* of one thread (one queue operation, one device operation, one access to *)
(* the shared power cell).  Time is a tick counter seen only through the   *)
(* remaining cool-down of an UltrasonicThread; every other sleep and       *)
(* timeout may take any amount of time, which the interleaving covers.     *)
(***************************************************************************)
EXTENDS Integers, Sequences, FiniteSets

\* ------------------------------------------------------------------ bounds
\* Length of the scripted read sequence of a touch sensor (initial read
\* included); afterwards the sensor keeps its last value.
MaxReads == 3
\* Longest time (ticks) the obstacle stays in range of the ultrasonic sensor;
\* the scripted distance sequence is far.., near (at most MaxLowLen ticks), far..
MaxLowLen == 2
\* Number of stop tokens the coordinator puts on stopQueue (where the signal
\* is set repeatedly, the number of repetitions).
MaxStopPuts == 1

\* ------------------------------------------------------- program constants
\* UltrasonicThread.min_distance
min_distance == 20
\* UltrasonicThread.reverse_timout (seconds; one tick is one second)
reverse_timout == 2
\* MotorRunThread.power = [100]
InitialPower == 100

\* ----------------------------------------------------------------- threads
\* A thread that a configuration does not start stays at "off".
Motor == "motor"
Touches == {"touch1"}
Ultras == {"ultra1", "ultra2"}
Pollers == Touches \cup Ultras
Checker == "checker"
Threads == {Motor, Checker} \cup Pollers

\* _stop_token
StopToken == "stop_token"
\* Distances the ultrasonic sensor reports: obstacle in range / out of range.
NearDistance == min_distance - 10
FarDistance == min_distance + 10

NoReq == [id |-> 0, caller |-> "none", cmd |-> "none", power |-> 0]

VARIABLES
  pc,               \* position of every thread in its run method
  stopQueue,        \* the shared stopQueue (sequence of items)
  tokensPut,        \* number of stop tokens the coordinator has put
  workRequestQueue, \* Serializer.workRequestQueue of the motor
  resultQueue,      \* Serializer.resultQueue of the motor
  cur,              \* the request MotorRunThread.run has fetched
  ret,              \* value the running callable will return (tacho)
  power,            \* MotorRunThread.power[0], the shared power cell
  devOps,           \* the motor device: number of actuation commands issued
  devPower,         \* the motor device: power of the latest run/turn command
  arg,              \* the power argument a thread has evaluated for the call
                    \* it is about to make (apply of a poller, Motor.run)
  button_down,      \* MotorTouchThread.run local, per touch thread
  tmp,              \* operand loaded by powerList[0] *= -1, per ultrasonic
  coolLeft,         \* ticks left of time.sleep(reverse_timout), per ultrasonic
  distance,         \* what get_distance() returns now
  lowLen,           \* ticks the obstacle has been (or was) in range
  obstacleSeen,     \* the obstacle has come into range
  \* ---- history (observation only, never read by the program) ----
  nextId,           \* identity given to the next request
  enqLog,           \* ids in the order apply put them on workRequestQueue
  execLog,          \* ids in the order the consumer started executing them
  devBusy,          \* {[thread, id]}: callables now running against the device
  failed,           \* ids of commands whose execution raised
  lastReq,          \* id of the caller's latest request
  lastRes,          \* id of the command whose Result the caller's apply returned
  late,             \* the caller's latest apply began after the consumer exited
  reads,            \* values read from each touch sensor, initial read first
  issued,           \* commands each poller put on the queue, in order
  flips,            \* number of completed sign flips, per ultrasonic
  winTrig,          \* below-threshold reads of the obstacle, per ultrasonic
  cellWritten,      \* the power cell has been written since the consumer
                    \* took the request it is executing
  counting,         \* whether this run counts the False returns of check_stop
  missed            \* check_stop calls of a thread that returned False after
                    \* the first token was put (counted up to the number of
                    \* running threads)

vars == <<pc, stopQueue, tokensPut, counting, missed, workRequestQueue,
          resultQueue, cur, ret, power, devOps, devPower, arg, cellWritten,
          button_down, tmp, coolLeft, distance, lowLen,
          obstacleSeen, nextId, enqLog, execLog, devBusy, failed, lastReq,
          lastRes, late,
          reads, issued, flips, winTrig>>

stopVars == <<stopQueue, tokensPut, counting, missed>>
motorVars == <<workRequestQueue, resultQueue, cur, ret, devOps, devPower>>
touchVars == <<button_down, reads>>
ultraVars == <<tmp, coolLeft, flips, winTrig>>
envVars == <<distance, lowLen, obstacleSeen>>
applyHist == <<nextId, enqLog, lastReq, lastRes, late, issued>>
execHist == <<execLog, devBusy, failed>>
argVars == <<arg, cellWritten>>

Last(s) == s[Len(s)]
Min(a, b) == IF a < b THEN a ELSE b

\* The loops that share stopQueue (the threads the configuration started).
Running == {th \in Threads : pc[th] # "off"}

\* Queue.Queue is LIFO here: what a get would return if the queue handed out
\* its newest item (used to test the ordering properties).
QueueGetNewest(q) == [item |-> q[Len(q)], rest |-> SubSeq(q, 1, Len(q) - 1)]

\* Queue.Queue.get on a non-empty FIFO queue: the oldest item, and what is left.
QueueGet(q) == [item |-> Head(q), rest |-> Tail(q)]

\* --------------------------------------------------------------------- Init
\* The state after construction, with the threads of `started` running.
InitWith(started, count) ==
  /\ pc = [th \in Threads |-> IF th \notin started THEN "off"
                               ELSE IF th \in Touches THEN "init"
                               ELSE "check_stop"]
  /\ stopQueue = <<>>
  /\ tokensPut = 0
  /\ counting = count
  /\ missed = [th \in Threads |-> 0]
  /\ workRequestQueue = <<>>
  /\ resultQueue = <<>>
  /\ cur = NoReq
  /\ ret = 0
  /\ power = InitialPower
  /\ devOps = 0
  /\ devPower = 0
  /\ arg = [th \in Pollers \cup {Motor} |-> 0]
  /\ cellWritten = FALSE
  /\ button_down = [t \in Touches |-> FALSE]
  /\ tmp = [u \in Ultras |-> 0]
  /\ coolLeft = [u \in Ultras |-> 0]
  /\ distance = FarDistance
  /\ lowLen = 0
  /\ obstacleSeen = FALSE
  /\ nextId = 1
  /\ enqLog = <<>>
  /\ execLog = <<>>
  /\ devBusy = {}
  /\ failed = {}
  /\ lastReq = [c \in Pollers |-> 0]
  /\ lastRes = [c \in Pollers |-> 0]
  /\ late = [c \in Pollers |-> FALSE]
  /\ reads = [t \in Touches |-> <<>>]
  /\ issued = [c \in Pollers |-> <<>>]
  /\ flips = [u \in Ultras |-> 0]
  /\ winTrig = [u \in Ultras |-> 0]

\* One motor, one touch sensor and one ultrasonic sensor.
Init == InitWith({Motor, "touch1", "ultra1"}, FALSE)

\* --------------------------------------------------------------- check_stop
\* stopQueue.get_nowait(): the token is taken off the queue (the caller then
\* holds it until it puts it back), or Queue.Empty and check_stop is False.
CheckStopGet(th, onFalse) ==
  \/ /\ stopQueue # <<>>
     /\ Head(stopQueue) = StopToken
     /\ stopQueue' = Tail(stopQueue)
     /\ pc' = [pc EXCEPT ![th] = "cs_put"]
     /\ missed' = missed
  \/ /\ stopQueue = <<>>
     /\ stopQueue' = stopQueue
     /\ pc' = [pc EXCEPT ![th] = onFalse]
     /\ missed' = [missed EXCEPT ![th] =
                     IF counting /\ tokensPut > 0
                       THEN Min(@ + 1, Cardinality(Running))
                       ELSE @]

\* check_stop returns True without putting the token back (used to test the
\* conservation of the token).
CheckStopPutDropped(th) ==
  /\ pc[th] = "cs_put"
  /\ stopQueue' = stopQueue
  /\ pc' = [pc EXCEPT ![th] = "done"]
  /\ UNCHANGED <<argVars, tokensPut, counting, missed, motorVars, power,
                 touchVars, ultraVars, envVars, applyHist, execHist>>

\* stopQueue.put(_stop_token); return True; the caller's loop breaks.
CheckStopPut(th) ==
  /\ pc[th] = "cs_put"
  /\ stopQueue' = Append(stopQueue, StopToken)
  /\ pc' = [pc EXCEPT ![th] = "done"]
  /\ UNCHANGED <<argVars, tokensPut, counting, missed, motorVars, power,
                 touchVars, ultraVars, envVars, applyHist, execHist>>

\* The coordinator requests shutdown: sq.put(_stop_token).
SetStop ==
  /\ tokensPut < MaxStopPuts
  /\ stopQueue' = Append(stopQueue, StopToken)
  /\ tokensPut' = tokensPut + 1
  /\ UNCHANGED <<argVars, pc, counting, missed, motorVars, power, touchVars,
                 ultraVars, envVars, applyHist, execHist>>

\* The coordinator (or another caller) sets the signal again after it has
\* been set: one more sq.put(_stop_token).
SetStopRepeated ==
  /\ tokensPut >= 1
  /\ tokensPut <= MaxStopPuts
  /\ stopQueue' = Append(stopQueue, StopToken)
  /\ tokensPut' = tokensPut + 1
  /\ UNCHANGED <<argVars, pc, counting, missed, motorVars, power, touchVars,
                 ultraVars, envVars, applyHist, execHist>>

\* --------------------------------------------------------- Serializer.apply
\* The callable a poller passes to apply.
CmdOf(c) ==
  IF c \in Ultras THEN "turn"
  ELSE IF button_down[c] THEN "start" ELSE "stop"

\* The poller evaluates the power argument of its call before it calls apply:
\*   self.motor.apply(motor_start, self.motor, self.motor.power[0])
\*   self.motor.apply(motor_turn, self.motor, self.powerList[0], 180)
ApplyArg(c) ==
  /\ pc[c] = "apply_arg"
  /\ arg' = [arg EXCEPT ![c] = power]
  /\ pc' = [pc EXCEPT ![c] = "apply_put"]
  /\ UNCHANGED <<cellWritten, stopVars, motorVars, power, touchVars, ultraVars,
                 envVars, applyHist, execHist>>

\* apply, first statement: self.workRequestQueue.put((callable, args, kwds)).
\* motor_stop takes no power argument.  The evaluated argument now lives in
\* the request only.
ApplyPut(c) ==
  /\ pc[c] = "apply_put"
  /\ workRequestQueue' = Append(workRequestQueue,
        [id |-> nextId, caller |-> c, cmd |-> CmdOf(c),
         power |-> IF CmdOf(c) = "stop" THEN 0 ELSE arg[c]])
  /\ pc' = [pc EXCEPT ![c] = "apply_get"]
  /\ nextId' = nextId + 1
  /\ enqLog' = Append(enqLog, nextId)
  /\ lastReq' = [lastReq EXCEPT ![c] = nextId]
  /\ late' = [late EXCEPT ![c] = (pc[Motor] = "done")]
  /\ issued' = [issued EXCEPT ![c] = Append(@, CmdOf(c))]
  /\ arg' = [arg EXCEPT ![c] = 0]
  /\ UNCHANGED <<cellWritten, stopVars, resultQueue, cur, ret, devOps, devPower,
                 power, touchVars, tmp, coolLeft, flips, winTrig, envVars,
                 lastRes, execHist>>

\* apply, second statement: return self.resultQueue.get().  Blocks while the
\* queue is empty; whichever waiting caller runs first takes the oldest entry.
\* Back in the poller: a touch thread loops, an ultrasonic thread starts
\* time.sleep(reverse_timout).
ApplyGet(c) ==
  /\ pc[c] = "apply_get"
  /\ resultQueue # <<>>
  /\ resultQueue' = QueueGet(resultQueue).rest
  /\ lastRes' = [lastRes EXCEPT ![c] = QueueGet(resultQueue).item.id]
  /\ pc' = [pc EXCEPT ![c] = IF c \in Ultras THEN "cooldown" ELSE "check_stop"]
  /\ coolLeft' = [u \in Ultras |-> IF u = c THEN reverse_timout ELSE coolLeft[u]]
  /\ UNCHANGED <<argVars, stopVars, workRequestQueue, cur, ret, devOps,
                 devPower, power, touchVars, tmp, flips, winTrig, envVars,
                 nextId, enqLog, lastReq, late, issued, execHist>>

\* ------------------------------------------------------- MotorRunThread.run
\* if check_stop(self.stopQueue): ... break
MotorCheckStop ==
  /\ pc[Motor] = "check_stop"
  /\ CheckStopGet(Motor, "get")
  /\ UNCHANGED <<argVars, tokensPut, counting, motorVars, power, touchVars,
                 ultraVars, envVars, applyHist, execHist>>

\* A receive timeout that puts a (void) result on resultQueue (used to test
\* the conservation of requests and results).
MotorGetTimeoutResult ==
  /\ pc[Motor] = "get"
  /\ cellWritten' = FALSE
  /\ IF workRequestQueue # <<>>
       THEN /\ cur' = QueueGet(workRequestQueue).item
            /\ workRequestQueue' = QueueGet(workRequestQueue).rest
            /\ pc' = [pc EXCEPT ![Motor] = "exec1"]
            /\ resultQueue' = resultQueue
       ELSE /\ UNCHANGED <<cur, workRequestQueue>>
            /\ pc' = [pc EXCEPT ![Motor] = "check_stop"]
            /\ resultQueue' = Append(resultQueue,
                  [id |-> 0, tacho |-> 0, cmd |-> "none", ops |-> devOps])
  /\ UNCHANGED <<arg, stopVars, ret, devOps, devPower, power, touchVars,
                 ultraVars, envVars, applyHist, execHist>>

\* self.workRequestQueue.get(timeout=reqWait): the oldest request, or
\* Queue.Empty when the queue stayed empty (continue: back to check_stop).
MotorGet ==
  /\ pc[Motor] = "get"
  /\ cellWritten' = FALSE
  /\ IF workRequestQueue # <<>>
       THEN /\ cur' = QueueGet(workRequestQueue).item
            /\ workRequestQueue' = QueueGet(workRequestQueue).rest
            /\ pc' = [pc EXCEPT ![Motor] = "exec1"]
       ELSE /\ UNCHANGED <<cur, workRequestQueue>>
            /\ pc' = [pc EXCEPT ![Motor] = "check_stop"]
  /\ UNCHANGED <<arg, stopVars, resultQueue, ret, devOps, devPower, power,
                 touchVars, ultraVars, envVars, applyHist, execHist>>

\* An exception raised by the callable is caught nowhere in run: it ends the
\* thread, and nothing is put on resultQueue.
MotorRaise ==
  /\ pc' = [pc EXCEPT ![Motor] = "dead"]
  /\ failed' = failed \cup {cur.id}
  /\ devBusy' = devBusy \ {[thread |-> Motor, id |-> cur.id]}
  /\ UNCHANGED <<ret, devOps, devPower>>

\* The consumer hands the callable to a helper and goes back to its loop
\* without waiting for the callable to return (used to test mutual exclusion).
MotorExec1Detached ==
  /\ pc[Motor] = "exec1"
  /\ pc' = [pc EXCEPT ![Motor] = "check_stop"]
  /\ devBusy' = devBusy \cup {[thread |-> "helper", id |-> cur.id]}
  /\ execLog' = Append(execLog, cur.id)
  /\ UNCHANGED <<argVars, stopVars, workRequestQueue, resultQueue, cur, ret,
                 devOps, devPower, power, touchVars, ultraVars, envVars,
                 applyHist, failed>>

\* callable(*args, **kwds), first device operation:
\*   motor_start: t = motor.get_tacho()
\*   motor_stop:  motor.brake() / motor.idle()
\*   motor_turn:  motor.turn(power, degrees)
MotorExec1 ==
  /\ pc[Motor] = "exec1"
  /\ execLog' = Append(execLog, cur.id)
  /\ \/ /\ pc' = [pc EXCEPT ![Motor] =
                    IF cur.cmd = "start" THEN "exec_arg" ELSE "exec2"]
        /\ devBusy' = devBusy \cup {[thread |-> Motor, id |-> cur.id]}
        /\ IF cur.cmd = "start"
             THEN ret' = devOps /\ devOps' = devOps
             ELSE ret' = ret /\ devOps' = devOps + 1
        /\ devPower' = IF cur.cmd = "turn" THEN cur.power ELSE devPower
        /\ failed' = failed
     \/ MotorRaise
  /\ UNCHANGED <<argVars, stopVars, workRequestQueue, resultQueue, cur, power,
                 touchVars, ultraVars, envVars, applyHist>>

\* motor_start, argument of its device call: power=MotorRunThread.power[0] is
\* evaluated before nm.Motor.run is called.
MotorExecArg ==
  /\ pc[Motor] = "exec_arg"
  /\ arg' = [arg EXCEPT ![Motor] = power]
  /\ pc' = [pc EXCEPT ![Motor] = "exec2"]
  /\ UNCHANGED <<cellWritten, stopVars, motorVars, power, touchVars, ultraVars,
                 envVars, applyHist, execHist>>

\* motor_start samples the tacho after the run command instead of before it
\* (used to test the sampling order).
MotorExec2SampleLate ==
  /\ pc[Motor] = "exec2"
  /\ \/ /\ pc' = [pc EXCEPT ![Motor] = "put_result"]
        /\ devBusy' = devBusy \ {[thread |-> Motor, id |-> cur.id]}
        /\ IF cur.cmd = "start"
             THEN ret' = devOps + 1 /\ devOps' = devOps + 1
             ELSE ret' = devOps /\ devOps' = devOps
        /\ devPower' = IF cur.cmd = "start" THEN arg[Motor] ELSE devPower
        /\ failed' = failed
     \/ MotorRaise
  /\ arg' = [arg EXCEPT ![Motor] = 0]
  /\ UNCHANGED <<cellWritten, stopVars, workRequestQueue, resultQueue, cur,
                 power, touchVars, ultraVars, envVars, applyHist, execLog>>

\* callable(*args, **kwds), second device operation, and return:
\*   motor_start: nm.Motor.run(motor, power=<evaluated argument>); return t
\*   motor_stop, motor_turn: return motor.get_tacho()
MotorExec2 ==
  /\ pc[Motor] = "exec2"
  /\ \/ /\ pc' = [pc EXCEPT ![Motor] = "put_result"]
        /\ devBusy' = devBusy \ {[thread |-> Motor, id |-> cur.id]}
        /\ IF cur.cmd = "start"
             THEN ret' = ret /\ devOps' = devOps + 1
             ELSE ret' = devOps /\ devOps' = devOps
        /\ devPower' = IF cur.cmd = "start" THEN arg[Motor] ELSE devPower
        /\ failed' = failed
     \/ MotorRaise
  /\ arg' = [arg EXCEPT ![Motor] = 0]
  /\ UNCHANGED <<cellWritten, stopVars, workRequestQueue, resultQueue, cur,
                 power, touchVars, ultraVars, envVars, applyHist, execLog>>

\* self.resultQueue.put(<value returned by the callable>)
\* The entry is the tacho reading; id, cmd and ops (the number of actuation
\* commands the device had received when the callable returned, the command's
\* own one included) are kept with it for observation only.
MotorPutResult ==
  /\ pc[Motor] = "put_result"
  /\ resultQueue' = Append(resultQueue,
        [id |-> cur.id, tacho |-> ret, cmd |-> cur.cmd, ops |-> devOps])
  /\ cur' = NoReq
  /\ cellWritten' = FALSE
  /\ pc' = [pc EXCEPT ![Motor] = "check_stop"]
  /\ UNCHANGED <<arg, stopVars, workRequestQueue, ret, devOps, devPower, power,
                 touchVars, ultraVars, envVars, applyHist, execHist>>

\* ----------------------------------------------------- MotorTouchThread.run
\* Values the next is_pressed() may return.
SensorValues(t) ==
  IF Len(reads[t]) < MaxReads THEN BOOLEAN ELSE {Last(reads[t])}

LogRead(t, v) ==
  reads' = [reads EXCEPT ![t] = IF Len(@) < MaxReads THEN Append(@, v) ELSE @]

\* button_down = self.is_pressed(), before the loop
TouchInit(t) ==
  /\ pc[t] = "init"
  /\ \E v \in BOOLEAN :
       /\ button_down' = [button_down EXCEPT ![t] = v]
       /\ LogRead(t, v)
  /\ pc' = [pc EXCEPT ![t] = "check_stop"]
  /\ UNCHANGED <<argVars, stopVars, motorVars, power, ultraVars, envVars,
                 applyHist, execHist>>

\* time.sleep(...); if check_stop(self.stopQueue): ... break
TouchCheckStop(t) ==
  /\ pc[t] = "check_stop"
  /\ CheckStopGet(t, "read")
  /\ UNCHANGED <<argVars, tokensPut, counting, motorVars, power, touchVars,
                 ultraVars, envVars, applyHist, execHist>>

\* Issues Start whenever the button reads pressed, whatever button_down is
\* (used to test the edge detection).
TouchDecisionLevel(bd, v) ==
  IF v THEN "start" ELSE IF bd /\ ~v THEN "stop" ELSE "none"

\* if not button_down and self.is_pressed(): ... motor_start
\* elif button_down and not self.is_pressed(): ... motor_stop
\* (and/elif short-circuit: is_pressed() is called once per iteration, v)
TouchDecision(bd, v) ==
  IF ~bd /\ v THEN "start" ELSE IF bd /\ ~v THEN "stop" ELSE "none"

TouchRead(t) ==
  /\ pc[t] = "read"
  /\ \E v \in SensorValues(t) :
       /\ LogRead(t, v)
       /\ IF TouchDecision(button_down[t], v) = "start"
            THEN /\ button_down' = [button_down EXCEPT ![t] = TRUE]
                 /\ pc' = [pc EXCEPT ![t] = "apply_arg"]
            ELSE IF TouchDecision(button_down[t], v) = "stop"
            THEN /\ button_down' = [button_down EXCEPT ![t] = FALSE]
                 /\ pc' = [pc EXCEPT ![t] = "apply_put"]
            ELSE /\ button_down' = button_down
                 /\ pc' = [pc EXCEPT ![t] = "check_stop"]
  /\ UNCHANGED <<argVars, stopVars, motorVars, power, ultraVars, envVars,
                 applyHist, execHist>>

\* ----------------------------------------------------- UltrasonicThread.run
\* time.sleep(...); if check_stop(self.stopQueue): ... break
UltraCheckStop(u) ==
  /\ pc[u] = "check_stop"
  /\ CheckStopGet(u, "read")
  /\ UNCHANGED <<argVars, tokensPut, counting, motorVars, power, touchVars,
                 ultraVars, envVars, applyHist, execHist>>

\* if self.get_distance() < UltrasonicThread.min_distance:
UltraRead(u) ==
  /\ pc[u] = "read"
  /\ IF distance < min_distance
       THEN /\ pc' = [pc EXCEPT ![u] = "flip_read"]
            /\ winTrig' = [winTrig EXCEPT ![u] = @ + 1]
       ELSE /\ pc' = [pc EXCEPT ![u] = "check_stop"]
            /\ winTrig' = winTrig
  /\ UNCHANGED <<argVars, stopVars, motorVars, power, touchVars, tmp, coolLeft,
                 flips, envVars, applyHist, execHist>>

\* self.powerList[0] *= -1, load of the operand
UltraFlipRead(u) ==
  /\ pc[u] = "flip_read"
  /\ tmp' = [tmp EXCEPT ![u] = power]
  /\ pc' = [pc EXCEPT ![u] = "flip_write"]
  /\ UNCHANGED <<argVars, stopVars, motorVars, power, touchVars, coolLeft,
                 flips, winTrig, envVars, applyHist, execHist>>

\* self.powerList[0] *= -1, store of the product
UltraFlipWrite(u) ==
  /\ pc[u] = "flip_write"
  /\ power' = tmp[u] * (-1)
  /\ cellWritten' = (cur # NoReq)
  /\ flips' = [flips EXCEPT ![u] = @ + 1]
  /\ pc' = [pc EXCEPT ![u] = "apply_arg"]
  /\ UNCHANGED <<arg, stopVars, motorVars, touchVars, tmp, coolLeft, winTrig,
                 envVars, applyHist, execHist>>

\* The cool-down sleep left out (used to test the debounce).
UltraCooldownSkipped(u) ==
  /\ pc[u] = "cooldown"
  /\ pc' = [pc EXCEPT ![u] = "check_stop"]
  /\ UNCHANGED <<argVars, stopVars, motorVars, power, touchVars, ultraVars,
                 envVars, applyHist, execHist>>

\* time.sleep(UltrasonicThread.reverse_timout) returns once the time is over
UltraCooldown(u) ==
  /\ pc[u] = "cooldown"
  /\ coolLeft[u] = 0
  /\ pc' = [pc EXCEPT ![u] = "check_stop"]
  /\ UNCHANGED <<argVars, stopVars, motorVars, power, touchVars, ultraVars,
                 envVars, applyHist, execHist>>

\* ---------------------------------------------------- ResultQueueChecker.run
\* if self.stopQueue.get_nowait() is _stop_token: ... / except Queue.Empty: pass
CheckerCheckStop ==
  /\ pc[Checker] = "check_stop"
  /\ CheckStopGet(Checker, "get")
  /\ UNCHANGED <<argVars, tokensPut, counting, motorVars, power, touchVars,
                 ultraVars, envVars, applyHist, execHist>>

\* result = self.resQueue.get(timeout=ResultQueueChecker.reqWait): the oldest
\* entry of the queue, or Queue.Empty when it stayed empty (continue).
CheckerGet ==
  /\ pc[Checker] = "get"
  /\ IF resultQueue # <<>>
       THEN resultQueue' = QueueGet(resultQueue).rest
       ELSE resultQueue' = resultQueue
  /\ pc' = [pc EXCEPT ![Checker] = "check_stop"]
  /\ UNCHANGED <<argVars, stopVars, workRequestQueue, cur, ret, devOps,
                 devPower, power, touchVars, ultraVars, envVars, applyHist,
                 execHist>>

\* -------------------------------------------------------------- environment
\* An obstacle comes within min_distance of the ultrasonic sensor.
ObstacleAppears ==
  /\ distance = FarDistance
  /\ ~obstacleSeen
  /\ distance' = NearDistance
  /\ obstacleSeen' = TRUE
  /\ UNCHANGED <<argVars, pc, stopVars, motorVars, power, touchVars, ultraVars,
                 lowLen, applyHist, execHist>>

\* The obstacle is out of range again.
ObstacleLeaves ==
  /\ distance = NearDistance
  /\ distance' = FarDistance
  /\ UNCHANGED <<argVars, pc, stopVars, motorVars, power, touchVars, ultraVars,
                 lowLen, obstacleSeen, applyHist, execHist>>

\* One second passes.  An obstacle that has been in range for MaxLowLen
\* seconds leaves.
Tick ==
  /\ coolLeft' = [u \in Ultras |-> IF coolLeft[u] > 0 THEN coolLeft[u] - 1 ELSE 0]
  /\ IF distance = NearDistance
       THEN IF lowLen < MaxLowLen
              THEN lowLen' = lowLen + 1 /\ distance' = distance
              ELSE lowLen' = lowLen /\ distance' = FarDistance
       ELSE UNCHANGED <<lowLen, distance>>
  /\ UNCHANGED <<argVars, pc, stopVars, motorVars, power, touchVars, tmp, flips,
                 winTrig, obstacleSeen, applyHist, execHist>>

\* ------------------------------------------------------------ specification
MotorStep ==
  \/ MotorCheckStop
  \/ CheckStopPut(Motor)
  \/ MotorGet
  \/ MotorExec1
  \/ MotorExecArg
  \/ MotorExec2
  \/ MotorPutResult

TouchStep(t) ==
  \/ TouchInit(t)
  \/ TouchCheckStop(t)
  \/ CheckStopPut(t)
  \/ TouchRead(t)
  \/ ApplyArg(t)
  \/ ApplyPut(t)
  \/ ApplyGet(t)

UltraStep(u) ==
  \/ UltraCheckStop(u)
  \/ CheckStopPut(u)
  \/ UltraRead(u)
  \/ UltraFlipRead(u)
  \/ UltraFlipWrite(u)
  \/ ApplyArg(u)
  \/ ApplyPut(u)
  \/ ApplyGet(u)
  \/ UltraCooldown(u)

Next ==
  \/ SetStop
  \/ MotorStep
  \/ \E t \in Touches : TouchStep(t)
  \/ \E u \in Ultras : UltraStep(u)
  \/ ObstacleAppears
  \/ ObstacleLeaves
  \/ Tick

Spec == Init /\ [][Next]_vars

\* Every thread that can take a step eventually takes one (the scheduler
\* starves no thread), and time passes.
FairSpec ==
  /\ Spec
  /\ WF_vars(MotorStep)
  /\ \A t \in Touches : WF_vars(TouchStep(t))
  /\ \A u \in Ultras : WF_vars(UltraStep(u))
  /\ WF_vars(Tick)

\* ---- the shutdown signal set more than once: one motor and one touch sensor,
\* ---- the False returns of check_stop counted
StopInit == InitWith({Motor, "touch1"}, TRUE)

StopNext ==
  \/ SetStop
  \/ SetStopRepeated
  \/ MotorStep
  \/ \E t \in Touches : TouchStep(t)

StopSpec == StopInit /\ [][StopNext]_vars

FairStopSpec ==
  /\ StopSpec
  /\ WF_vars(MotorStep)
  /\ \A t \in Touches : WF_vars(TouchStep(t))

\* ---- two ultrasonic sensors driving the power cell of one motor
FlipInit == InitWith({Motor} \cup Ultras, FALSE)

\* The consumer's steps for the commands issued here (Turn only: no
\* motor_start, hence no argument of Motor.run to evaluate).
FlipMotorStep ==
  \/ MotorCheckStop
  \/ CheckStopPut(Motor)
  \/ MotorGet
  \/ MotorExec1
  \/ MotorExec2
  \/ MotorPutResult

FlipNext ==
  \/ SetStop
  \/ FlipMotorStep
  \/ \E u \in Ultras : UltraStep(u)
  \/ ObstacleAppears
  \/ ObstacleLeaves
  \/ Tick

FlipSpec == FlipInit /\ [][FlipNext]_vars

\* ---- a ResultQueueChecker on the resultQueue of a motor that serves a touch
\* ---- sensor
CheckerStep ==
  \/ CheckerCheckStop
  \/ CheckStopPut(Checker)
  \/ CheckerGet

CheckerInit == InitWith({Motor, "touch1", Checker}, FALSE)

CheckerNext ==
  \/ SetStop
  \/ MotorStep
  \/ \E t \in Touches : TouchStep(t)
  \/ CheckerStep

CheckerSpec == CheckerInit /\ [][CheckerNext]_vars

\* ================================================================ properties
AllExited == \A th \in Running : pc[th] \in {"done", "dead"}

\* The caller is not inside apply and has made at least one call.
Returned(c) == lastReq[c] # 0 /\ pc[c] # "apply_get"

\* C1: every apply call returns the Result of the caller's own command: once
\* a caller's apply has returned, the Result it got is the one produced by
\* executing the request that call put on the queue.
C1_OwnResult ==
  \A c \in Pollers : Returned(c) => lastRes[c] = lastReq[c]

\* C2: at most one command callable is executing against the motor's device
\* at any instant, and it is the consumer thread that executes it.
C2_MutualExclusion ==
  /\ Cardinality(devBusy) <= 1
  /\ \A e \in devBusy : e.thread = Motor

\* A second command is executing, after the first one ended, while another
\* caller's command waits in the queue.
C2_Witness ==
  /\ Len(execLog) >= 2
  /\ devBusy # {}
  /\ workRequestQueue # <<>>

\* C3: the order in which commands are executed is the order in which apply
\* put them on workRequestQueue: the execution log is a prefix of the enqueue
\* log (nothing reordered, nothing skipped, nothing executed twice).
C3_FifoOrder ==
  /\ Len(execLog) <= Len(enqLog)
  /\ \A i \in 1..Len(execLog) : execLog[i] = enqLog[i]

\* Two commands of different callers were outstanding together and have both
\* been executed, and a third one waits.
C3_Witness ==
  /\ Len(execLog) >= 2
  /\ \A c \in Pollers \cap Running : pc[c] = "apply_get"
  /\ Len(resultQueue) = 1
  /\ Len(workRequestQueue) = 1

\* C4: once the stop token is on stopQueue, every thread eventually exits.
C4_ShutdownTerminates == (tokensPut > 0) ~> AllExited

\* C5: an apply call that arrives after the consumer loop has observed
\* shutdown and exited does not hang: the caller gets out of apply.
C5_LateApplyReturns ==
  \A c \in Pollers : (late[c] /\ pc[c] = "apply_get") ~> (pc[c] # "apply_get")

\* C6: a failure raised by a command is delivered to its caller: the failed
\* command has an entry on resultQueue, or the consumer is about to put it, or
\* a caller's apply has returned it.
C6_FailureDelivered ==
  \A id \in failed :
    \/ \E i \in 1..Len(resultQueue) : resultQueue[i].id = id
    \/ pc[Motor] = "put_result" /\ cur.id = id
    \/ \E c \in Pollers : lastRes[c] = id

\* C7: a failed command does not halt the serializer: after a failure the
\* consumer thread is still in its loop (or has left it through shutdown).
C7_ConsumerSurvivesFailure ==
  failed # {} => pc[Motor] # "dead"

\* C8: the shutdown signal is one-way: a check_stop call that begins after the
\* stop token was put returns True (the caller goes on to put the token back).
C8_StopStaysSet ==
  [][\A th \in Threads :
       (tokensPut > 0 /\ pc[th] = "check_stop" /\ pc'[th] # "check_stop")
         => pc'[th] = "cs_put"]_vars

\* The commands a sequence of touch reads calls for: one per read that differs
\* from the read before it, Start on false->true, Stop on true->false.
RECURSIVE EdgeCmds(_)
EdgeCmds(s) ==
  IF Len(s) < 2 THEN <<>>
  ELSE LET front == SubSeq(s, 1, Len(s) - 1)
       IN IF s[Len(s)] # s[Len(s) - 1]
            THEN Append(EdgeCmds(front), IF s[Len(s)] THEN "start" ELSE "stop")
            ELSE EdgeCmds(front)

\* The commands a touch thread has issued, the one it is about to put included.
TouchCmds(t) ==
  IF pc[t] \in {"apply_arg", "apply_put"}
    THEN Append(issued[t], CmdOf(t))
    ELSE issued[t]

\* C9: a touch thread issues a command exactly at each read that differs from
\* the previous read (Start on false->true, Stop on true->false), and nothing
\* otherwise, so its commands strictly alternate.
C9_EdgeTriggered ==
  \A t \in Touches :
    /\ TouchCmds(t) = EdgeCmds(reads[t])
    /\ \A i \in 1..(Len(TouchCmds(t)) - 1) : TouchCmds(t)[i] # TouchCmds(t)[i + 1]

\* The reads false, true, false have produced one Start, then one Stop.
C9_Witness ==
  \E t \in Touches :
    /\ reads[t] = <<FALSE, TRUE, FALSE>>
    /\ issued[t] = <<"start", "stop">>

\* In every state: each below-threshold read makes one sign flip and one Turn,
\* and an obstacle in range for less than the cool-down is read below the
\* threshold at most once.
C10_OneReversal ==
  \A u \in Ultras :
    LET flipDue == IF pc[u] \in {"flip_read", "flip_write"} THEN 1 ELSE 0
        turnDue == IF pc[u] \in {"flip_read", "flip_write", "apply_arg",
                                  "apply_put"}
                     THEN 1 ELSE 0
    IN /\ flips[u] + flipDue = winTrig[u]
       /\ Len(issued[u]) + turnDue = winTrig[u]
       /\ lowLen < reverse_timout => winTrig[u] <= 1

\* In every step: the sensor is read only when no cool-down time is left.
C10_NoReadInCooldown ==
  \A u \in Ultras : (pc[u] = "read" /\ pc'[u] # "read") => coolLeft[u] = 0

\* C10: a distance that stays below min_distance for less than reverse_timout
\* yields exactly one reversal (one sign flip, one Turn), and after a Turn the
\* poller reads the sensor again only when the cool-down has elapsed.
C10_Debounce == []C10_OneReversal /\ [][C10_NoReadInCooldown]_vars

\* The obstacle was in range for one tick and is gone; it was read once, the
\* power was flipped once, one Turn was issued and answered, and the poller is
\* reading the sensor again after its cool-down.
C10_Witness ==
  \E u \in Ultras :
    /\ obstacleSeen /\ distance = FarDistance /\ lowLen = 1
    /\ winTrig[u] = 1 /\ flips[u] = 1 /\ issued[u] = <<"turn">>
    /\ power = -InitialPower
    /\ pc[u] = "read" /\ coolLeft[u] = 0 /\ lastRes[u] # 0

\* The requests of caller c that are on workRequestQueue or being executed.
Outstanding(c) ==
  {i \in 1..Len(workRequestQueue) : workRequestQueue[i].caller = c}
    \cup (IF cur.caller = c /\ pc[Motor] \in {"exec1", "exec_arg", "exec2"}
            THEN {0} ELSE {})

\* C11: every sensor poller has at most one outstanding command on the motor:
\* at most one of its requests is queued or executing at any time.
C11_OneOutstanding ==
  \A c \in Pollers : Cardinality(Outstanding(c)) <= 1

\* C12: the Result of a Start is the telemetry sampled strictly before its run
\* command reached the device (its own actuation is not counted in it); the
\* Result of a Stop or Turn is sampled after the brake/idle or turn operation
\* (its own actuation is counted in it).
C12_SampleOrder ==
  \A i \in 1..Len(resultQueue) :
    /\ resultQueue[i].cmd = "start" => resultQueue[i].tacho = resultQueue[i].ops - 1
    /\ resultQueue[i].cmd \in {"stop", "turn"} =>
         resultQueue[i].tacho = resultQueue[i].ops

\* The Result of a Start and the Result of a Turn are both on resultQueue.
C12_Witness ==
  /\ \E i \in 1..Len(resultQueue) : resultQueue[i].cmd = "start"
  /\ \E i \in 1..Len(resultQueue) : resultQueue[i].cmd = "turn"

\* Threads that hold the stop token: between get_nowait and put in check_stop.
Holders == {th \in Threads : pc[th] = "cs_put"}

\* C15: the stop token is never lost: the tokens on stopQueue plus the threads
\* between get_nowait and put equal the tokens the coordinator has put.
C15_TokenConserved ==
  Len(stopQueue) + Cardinality(Holders) = tokensPut

\* One thread has taken the token, put it back and exited, and a second
\* thread now holds it.
C15_Witness ==
  /\ tokensPut >= 1
  /\ Holders # {}
  /\ \E th \in Threads : pc[th] = "done"

\* C16: every command apply has put on workRequestQueue is executed exactly
\* once: none is executed twice, and once the consumer loop has ended through
\* shutdown none is left unexecuted.
C16_ExecutedExactlyOnce ==
  /\ \A i, j \in 1..Len(execLog) : execLog[i] = execLog[j] => i = j
  /\ pc[Motor] = "done" =>
       \A i \in 1..Len(enqLog) : \E j \in 1..Len(execLog) : execLog[j] = enqLog[i]

\* Callers blocked inside apply (request put, Result not yet received).
Blocked == {c \in Pollers : pc[c] = "apply_get"}

\* 1 while the consumer has fetched a request and not yet put its Result.
InExecution == IF cur # NoReq THEN 1 ELSE 0

\* C20: with no failing command (and no ResultQueueChecker), the callers
\* blocked inside apply are as many as the entries of workRequestQueue, plus
\* the command being executed, plus the entries of resultQueue.
C20_Conservation ==
  failed = {} =>
    Cardinality(Blocked) = Len(workRequestQueue) + InExecution + Len(resultQueue)

\* Two callers are blocked: the command of one is being executed, the command
\* of the other waits on workRequestQueue.
C20_Witness ==
  /\ failed = {}
  /\ Cardinality(Blocked) = 2
  /\ pc[Motor] = "exec2"
  /\ Len(workRequestQueue) = 1

\* C13: setting the shutdown signal is idempotent: after the stop token has
\* been put on stopQueue more than once, every loop still observes the signal
\* and exits.
C13_RepeatedSetExits == (tokensPut >= 2) ~> AllExited

\* C14: after the stop token has been put on a stopQueue shared by N loops,
\* the check_stop of a loop returns False at most N-1 more times.
C14_BoundedMisses ==
  \A th \in Running : missed[th] <= Cardinality(Running) - 1

\* Number of sign flips completed by the pollers of S together.
RECURSIVE TotalFlips(_)
TotalFlips(S) ==
  IF S = {} THEN 0
  ELSE LET u == CHOOSE x \in S : TRUE IN flips[u] + TotalFlips(S \ {u})

\* C17: no sign flip of the shared power cell is lost: after a total of k
\* flips the cell holds the initial value multiplied by (-1)^k.
C17_NoLostFlip ==
  power = IF TotalFlips(Ultras) % 2 = 0 THEN InitialPower ELSE InitialPower * (-1)

\* The consumer's step sends a run or turn command to the device.
Actuates == cur.cmd \in {"start", "turn"} /\ devOps' = devOps + 1

\* C18: the power a Start or Turn command applies to the device is read from
\* the shared power cell while the consumer executes the command: when the cell
\* has not been written since the consumer took the command, the power applied
\* is the value the cell holds.
C18_FreshPower == [][(Actuates /\ ~cellWritten) => devPower' = power]_vars

\* The checker's step takes an entry off resultQueue.
CheckerTakes ==
  /\ pc[Checker] = "get"
  /\ pc'[Checker] = "check_stop"
  /\ resultQueue # <<>>

\* C19: the ResultQueueChecker removes only results that no apply caller is
\* waiting for: it never takes the result of the latest request of a caller
\* that is blocked in apply.
C19_CheckerPassive ==
  [][CheckerTakes =>
       ~ \E c \in Pollers : /\ pc[c] = "apply_get"
                             /\ lastReq[c] = Head(resultQueue).id]_vars
====
